---- MODULE Spec2Model ----
(***************************************************************************)
(* A model of fracture.Project (src/fracture/_project.py): the catalog     *)
(* operations create/add/remove/tag, the settings list of scan locations   *)
(* and the scan() pass (discovery, tagging, pruning), together with the    *)
(* two kinds of plugins a project loads: scan plugins (the built-in file   *)
(* scanner and one custom source) and data plugins (traits), the signals   *)
(* of a scan, the settings lists, and get() with the plugin locations.     *)
(*                                                                         *)
(* The sql command files (fracture/sql/*.sql) and the xcomposite merge     *)
(* decorators are not part of the source tree at hand; the operators that  *)
(* stand for them (Sql..., ExtendUnique) follow the specification.         *)
(***************************************************************************)
EXTENDS Integers, Sequences, FiniteSets, Bags, TLC

(***************************************************************************)
(* Bounds of the model.                                                    *)
(***************************************************************************)
\* longest list of scan locations kept in the settings
MaxLocs == 2

\* the callables connected to one signal are at most this many
MaxCallables == 2

(***************************************************************************)
(* Generic helpers.                                                        *)
(***************************************************************************)
Range(s) == {s[i] : i \in DOMAIN s}

NoDup(s) == \A i, j \in DOMAIN s : s[i] = s[j] => i = j

Count(s, x) == Cardinality({i \in DOMAIN s : s[i] = x})

\* the elements of s that satisfy Keep, in order
RECURSIVE FilterSeq(_, _)
FilterSeq(s, keep) ==
    IF s = <<>> THEN <<>>
    ELSE IF Head(s) \in keep THEN <<Head(s)>> \o FilterSeq(Tail(s), keep)
    ELSE FilterSeq(Tail(s), keep)

\* s without its repeated elements, first occurrence kept
RECURSIVE Dedupe(_)
Dedupe(s) ==
    IF s = <<>> THEN <<>>
    ELSE LET front == Dedupe(SubSeq(s, 1, Len(s) - 1))
             x == s[Len(s)]
         IN IF x \in Range(front) THEN front ELSE Append(front, x)

\* every ordering of a finite set
Orderings(S) ==
    {f \in [1..Cardinality(S) -> S] : \A i, j \in 1..Cardinality(S) : f[i] = f[j] => i = j}

(***************************************************************************)
(* The world a project runs in: identifiers, locations, the disk.          *)
(***************************************************************************)
\* identifiers that plugins yield or callers pass
Ids == {"c:/r/a", "u1", "c:", "/r/b"}

\* the characters of a string (python indexes strings from 0)
Chars(id) ==
    CASE id = "c:/r/a" -> <<"c", ":", "/", "r", "/", "a">>
      [] id = "u1"     -> <<"u", "1">>
      [] id = "c:"     -> <<"c", ":">>
      [] id = "/r/b"   -> <<"/", "r", "/", "b">>
      [] id = "b"      -> <<"b">>
      [] id = "a"      -> <<"a">>
      [] id = "A"      -> <<"A">>
      [] id = "r"      -> <<"r">>
      [] id = "u"      -> <<"u">>
      [] id = "1"      -> <<"1">>
      [] id = "_"      -> <<"_">>
      [] id = "*"      -> <<"*">>
      [] id = "meat"   -> <<"m", "e", "a", "t">>

\* places a scan can be pointed at: a directory, a file inside it, and a
\* directory whose path has no drive letter
Locations == {"c:/r", "c:/r/a", "/r"}

\* files of directory c:/r that may or may not be on disk
Files == {"c:/r/a"}

\* files of directory /r that may or may not be on disk
RootFiles == {"/r/b"}

IsDir(path) == path \in {"c:/r", "/r"}

\* os.path.exists
PathExists(path, onDisk) == IsDir(path) \/ path \in onDisk

\* os.listdir of a directory
ListDir(path, onDisk) ==
    IF path = "/r" THEN (IF "/r/b" \in onDisk THEN <<"/r/b">> ELSE <<>>)
    ELSE IF "c:/r/a" \in onDisk THEN <<"c:/r/a">> ELSE <<>>

\* tags, as traits return them and as callers pass them
Tags == {"meat", "Meat", "Hunter", "hunter"}

\* str.lower
Lower(t) ==
    CASE t = "Meat"   -> "meat"
      [] t = "Hunter" -> "hunter"
      [] OTHER        -> t

(***************************************************************************)
(* Results of calls into plugin code: a value, or an exception.            *)
(***************************************************************************)
Ret(v) == [raised |-> FALSE, val |-> v]

Raise == [raised |-> TRUE, val |-> 0]

(***************************************************************************)
(* ScanProcess: the verdicts of check().                                   *)
(***************************************************************************)
IS_VALID == 0

NOT_VALID == 1

UNKNOWN == 2


(***************************************************************************)
(* The built-in file scanner (fracture/built-in/filescanner.py).           *)
(* skip is the set of identifiers the compiled skip pattern matches (empty *)
(* when no pattern is configured).                                         *)
(***************************************************************************)
FsCanRepresent(location, onDisk) == PathExists(location, onDisk)

\* a file scanner that yields what it finds, matched by the skip pattern or not
FsIdentifiersUnfiltered(location, skip, recursive, onDisk) ==
    [items |-> IF IsDir(location) THEN ListDir(location, onDisk) ELSE <<>>,
     raises |-> ~recursive /\ ~IsDir(location)]

\* os.walk yields nothing for a path that is no directory; os.listdir raises
FsIdentifiers(location, skip, recursive, onDisk) ==
    IF recursive
    THEN IF IsDir(location)
         THEN [items |-> FilterSeq(ListDir(location, onDisk), Ids \ skip), raises |-> FALSE]
         ELSE [items |-> <<>>, raises |-> FALSE]
    ELSE IF IsDir(location)
         THEN [items |-> FilterSeq(ListDir(location, onDisk), Ids \ skip), raises |-> FALSE]
         ELSE [items |-> <<>>, raises |-> TRUE]

\* identifier[1] is the second character, identifier[2] the third
FsCheck(identifier, onDisk) ==
    LET s == Chars(identifier)
    IN IF Len(s) < 2 THEN Ret(UNKNOWN)
       ELSE IF s[2] # ":" THEN Ret(UNKNOWN)
       ELSE IF Len(s) < 3 THEN Raise
       ELSE IF s[3] # "\\" /\ s[3] # "/" THEN Ret(UNKNOWN)
       ELSE IF ~PathExists(identifier, onDisk) THEN Ret(NOT_VALID)
       ELSE Ret(IS_VALID)

(***************************************************************************)
(* A custom scan plugin, "api": a second source that serves directory c:/r *)
(* from an index of its own, whatever the disk holds. It lists u1 twice    *)
(* and the file c:/r/a. It has no flat listing: asked for one, it yields   *)
(* its first entry and raises. It keeps the base class's check(). Like the *)
(* base class's identifiers(), it makes no use of the skip pattern it is   *)
(* handed.                                                                 *)
(***************************************************************************)
ApiCanRepresent(location) == location = "c:/r"

ApiIdentifiers(location, skip, recursive, onDisk) ==
    IF recursive
    THEN [items |-> <<"u1", "c:/r/a", "u1">>, raises |-> FALSE]
    ELSE [items |-> <<"u1">>, raises |-> TRUE]

\* ScanProcess.check, not overridden
ApiCheck(identifier) == Ret(UNKNOWN)

\* self._scan_factory.plugins(), in registry order
ScanPlugins == <<"api", "file_scanner">>

CanRepresent(plugin, location, onDisk) ==
    IF plugin = "file_scanner" THEN FsCanRepresent(location, onDisk)
    ELSE ApiCanRepresent(location)

Identifiers(plugin, location, skip, recursive, onDisk) ==
    IF plugin = "file_scanner" THEN FsIdentifiers(location, skip, recursive, onDisk)
    ELSE ApiIdentifiers(location, skip, recursive, onDisk)

Check(plugin, identifier, onDisk) ==
    IF plugin = "file_scanner" THEN FsCheck(identifier, onDisk)
    ELSE ApiCheck(identifier)

\* some registered source judges the identifier NOT_VALID
JudgedInvalid(identifier, onDisk) ==
    \E i \in DOMAIN ScanPlugins :
        LET c == Check(ScanPlugins[i], identifier, onDisk)
        IN ~c.raised /\ c.val = NOT_VALID

\* some registered source's check raises for the identifier
CheckRaises(identifier, onDisk) ==
    \E i \in DOMAIN ScanPlugins : Check(ScanPlugins[i], identifier, onDisk).raised

(***************************************************************************)
(* Data plugins (traits), in the order the factory registers them.         *)
(***************************************************************************)
DataPlugins ==
    << [data_type |-> "file",      priority |-> 1, version |-> 1],
       [data_type |-> "carnivore", priority |-> 2, version |-> 1] >>

TraitCanRepresent(data_type, identifier) ==
    CASE data_type = "file"      -> Len(Chars(identifier)) >= 2 /\ Chars(identifier)[2] = ":"
      [] data_type = "carnivore" -> identifier = "c:/r/a"
      [] data_type = "image"     -> identifier = "c:/r/a"
      [] data_type = "herbivore" -> identifier \in {"c:/r/a", "u1"}
      [] data_type = "archive"   -> identifier = "c:"
      [] data_type = "pet"       -> identifier = "c:/r/a"
      [] OTHER                   -> FALSE

TraitMandatoryTags(data_type, identifier) ==
    CASE data_type = "file"      -> <<"Hunter", "meat">>
      [] data_type = "carnivore" -> <<"meat", "Hunter">>
      [] OTHER                   -> <<>>

\* the data plugins found in a plugin location, in the order the factory
\* registers them
PluginDirs == {"p:/x", "p:/y"}

TraitsIn(location) ==
    CASE location = "p:/x" -> << [data_type |-> "image",     priority |-> 1, version |-> 1],
                                [data_type |-> "herbivore", priority |-> 2, version |-> 1] >>
      [] location = "p:/y" -> << [data_type |-> "pet",       priority |-> 2, version |-> 1],
                                [data_type |-> "archive",   priority |-> 1, version |-> 1] >>
      [] OTHER             -> <<>>

\* self._data_factory.plugins(): the plugins the project was constructed with,
\* then those of the locations added, location by location
RECURSIVE Registered(_)
Registered(paths) ==
    IF paths = <<>> THEN DataPlugins
    ELSE Registered(SubSeq(paths, 1, Len(paths) - 1)) \o TraitsIn(paths[Len(paths)])

\* a sort that puts a plugin before the plugins of its priority
RECURSIVE InsertByPriorityFirst(_, _)
InsertByPriorityFirst(sorted, p) ==
    IF sorted = <<>> THEN <<p>>
    ELSE IF Head(sorted).priority > p.priority
         THEN <<Head(sorted)>> \o InsertByPriorityFirst(Tail(sorted), p)
         ELSE <<p>> \o sorted

\* sorted(plugins, key=priority, reverse=True): stable, highest priority first
RECURSIVE InsertByPriority(_, _)
InsertByPriority(sorted, p) ==
    IF sorted = <<>> THEN <<p>>
    ELSE IF Head(sorted).priority >= p.priority
         THEN <<Head(sorted)>> \o InsertByPriority(Tail(sorted), p)
         ELSE <<p>> \o sorted

RECURSIVE SortByPriority(_)
SortByPriority(plugins) ==
    IF plugins = <<>> THEN <<>>
    ELSE InsertByPriority(SortByPriority(SubSeq(plugins, 1, Len(plugins) - 1)),
                          plugins[Len(plugins)])

\* Project._data_plugins
CachedDataPlugins == SortByPriority(DataPlugins)

\* a binding loop that ends at the first plugin that cannot represent
RECURSIVE BindWhile(_, _)
BindWhile(plugins, identifier) ==
    IF plugins = <<>> \/ ~TraitCanRepresent(Head(plugins).data_type, identifier) THEN <<>>
    ELSE <<Head(plugins).data_type>> \o BindWhile(Tail(plugins), identifier)

\* Project.get: the data types bound into the composite; <<>> stands for None
RECURSIVE BindAll(_, _)
BindAll(plugins, identifier) ==
    IF plugins = <<>> THEN <<>>
    ELSE IF TraitCanRepresent(Head(plugins).data_type, identifier)
         THEN <<Head(plugins).data_type>> \o BindAll(Tail(plugins), identifier)
         ELSE BindAll(Tail(plugins), identifier)

\* get(identifier) of a project whose self._data_plugins is data_plugins
Get(data_plugins, identifier) == BindAll(data_plugins, identifier)

\* xcomposite.extend_unique: every list, in binding order, duplicates dropped
RECURSIVE ConcatAll(_)
ConcatAll(lists) ==
    IF lists = <<>> THEN <<>> ELSE Head(lists) \o ConcatAll(Tail(lists))

ExtendUnique(lists) == Dedupe(ConcatAll(lists))

\* DataElement.mandatory_tags of the composite
MandatoryTags(view, identifier) ==
    Ret(ExtendUnique([i \in DOMAIN view |-> TraitMandatoryTags(view[i], identifier)]))


(***************************************************************************)
(* The project file: an sqlite database. created is FALSE until create()   *)
(* has made the tables; elements are the identifier rows in insertion      *)
(* order; tagRows the tag values; links the identifier-tag rows (a bag, so *)
(* that a repeated row would show); settings the stored settings blob.     *)
(***************************************************************************)
\* a settings dict: the keys it has, the keys whose value is None, and the
\* lists under the three keys the project uses; this one is dict()
NoSettings ==
    [keys |-> {}, nulls |-> {}, scan_locations |-> <<>>, skip_regex |-> <<>>,
     plugin_locations |-> <<>>]

\* python's None where a list is expected; no list of the model holds this string
None == <<"None">>

\* the text of the settings row: none stored, the text of a dict, or a text
\* that is not JSON
NoRow == [kind |-> "none", value |-> NoSettings]

Malformed == [kind |-> "malformed", value |-> NoSettings]

\* json.dumps
Dumps(m) == [kind |-> "json", value |-> m]

\* json.loads
Loads(text) == IF text.kind = "json" THEN Ret(text.value) ELSE Raise

\* a tag with a single quote in it: put into a statement, the quote ends the
\* sql literal
QuotedTag == "o'r"

\* the text holds a single quote, which ends the sql literal it is put in
HasQuote(text) == "c:/o'r" \in Range(text.value.scan_locations)

EmptyDb ==
    [created |-> FALSE, elements |-> <<>>, tagRows |-> {}, links |-> EmptyBag,
     settings |-> NoRow]

\* the tags linked to an identifier, with the number of rows of each
LinkCount(db, identifier, tag) == CopiesIn(<<identifier, tag>>, db.links)

TagSet(db, identifier) == {t \in Tags : LinkCount(db, identifier, t) > 0}

Members(db) == Range(db.elements)

\* arguments of a statement: $(IDENTIFIER), $(TAG), $(SETTINGS)
Args(identifier, tag, blob) == [id |-> identifier, tag |-> tag, blob |-> blob]

OnlyId(identifier) == Args(identifier, "", NoSettings)

(***************************************************************************)
(* The sql statements. Each gives the database after it and whether sqlite *)
(* raised an error; every statement fails while the tables do not exist.   *)
(***************************************************************************)
Ok(db) == [db |-> db, err |-> FALSE]

Err(db) == [db |-> db, err |-> TRUE]

\* an insert that does not look for the identifier first
SqlAddPlain(db, a) ==
    IF ~db.created THEN Err(db)
    ELSE Ok([db EXCEPT !.elements = Append(@, a.id)])

\* add: insert the identifier unless it is there
SqlAdd(db, a) ==
    IF ~db.created THEN Err(db)
    ELSE IF a.id \in Members(db) THEN Ok(db)
    ELSE Ok([db EXCEPT !.elements = Append(@, a.id)])

\* remove: delete the identifier's row and its links
SqlRemove(db, a) ==
    IF ~db.created THEN Err(db)
    ELSE Ok([db EXCEPT
               !.elements = FilterSeq(@, Ids \ {a.id}),
               !.links = [p \in {q \in DOMAIN @ : q[1] # a.id} |-> @[p]]])

\* tag_insert: insert the tag value unless it is there
SqlTagInsert(db, a) ==
    IF ~db.created \/ a.tag = QuotedTag THEN Err(db)
    ELSE Ok([db EXCEPT !.tagRows = @ \cup {a.tag}])

\* tag_connect: link an existing identifier to an existing tag; the link is
\* unique, a second one is an integrity error
SqlTagConnect(db, a) ==
    IF ~db.created \/ a.tag = QuotedTag THEN Err(db)
    ELSE IF a.id \notin Members(db) \/ a.tag \notin db.tagRows THEN Ok(db)
    ELSE IF LinkCount(db, a.id, a.tag) > 0 THEN Err(db)
    ELSE Ok([db EXCEPT !.links = @ (+) SetToBag({<<a.id, a.tag>>})])

\* tags_rem: delete the link of the identifier to exactly this tag value
SqlTagsRem(db, a) ==
    IF ~db.created \/ a.tag = QuotedTag THEN Err(db)
    ELSE Ok([db EXCEPT !.links = [p \in DOMAIN @ \ {<<a.id, a.tag>>} |-> @[p]]])

\* settings_set: replace the stored blob
SqlSettingsSet(db, a) ==
    IF ~db.created \/ HasQuote(a.blob) THEN Err(db)
    ELSE Ok([db EXCEPT !.settings = a.blob])

\* create: make the tables unless they exist
SqlCreate(db, a) == Ok([db EXCEPT !.created = TRUE])

\* the statements of a command file, in order
Statements(command) ==
    CASE command = "tags_add" -> <<"tag_insert", "tag_connect">>
      [] OTHER                -> <<command>>

RunStatement(db, statement, a) ==
    CASE statement = "add"          -> SqlAdd(db, a)
      [] statement = "remove"       -> SqlRemove(db, a)
      [] statement = "tag_insert"   -> SqlTagInsert(db, a)
      [] statement = "tag_connect"  -> SqlTagConnect(db, a)
      [] statement = "tags_rem"     -> SqlTagsRem(db, a)
      [] statement = "settings_set" -> SqlSettingsSet(db, a)
      [] statement = "create"       -> SqlCreate(db, a)

(***************************************************************************)
(* Project._execute: run the statements of a command one by one; an sqlite *)
(* error is logged and ends the command, and is not passed on.             *)
(***************************************************************************)
RECURSIVE ExecuteFrom(_, _, _)
\* _execute without its except clause: the sqlite error leaves the call
Uncaught(r, statements, a) ==
    IF r.err THEN [db |-> r.db, raised |-> TRUE]
    ELSE ExecuteFrom(r.db, Tail(statements), a)

\* the try/except around cursor.execute
Caught(r, statements, a) ==
    IF r.err THEN [db |-> r.db, raised |-> FALSE]
    ELSE ExecuteFrom(r.db, Tail(statements), a)

ExecuteFrom(db, statements, a) ==
    IF statements = <<>> THEN [db |-> db, raised |-> FALSE]
    ELSE Caught(RunStatement(db, Head(statements), a), statements, a)

Execute(db, command, a) == ExecuteFrom(db, Statements(command), a)

\* a "tags" argument: None, one string, or a list of strings
NoTags == [isList |-> FALSE, items |-> <<>>]

OneTag(t) == [isList |-> FALSE, items |-> <<t>>]

TagList(l) == [isList |-> TRUE, items |-> l]

\* if not isinstance(tags, (list, tuple)): tags = [tags]
AsList(arg) == arg.items

(***************************************************************************)
(* Project.find. The python side builds three clauses from the tags and    *)
(* hands them to the find statement; None, '' and [] take the find_all     *)
(* statement. LIKE is sqlite's: letters match whatever their case, %       *)
(* matches any run of characters and _ any one character.                  *)
(***************************************************************************)
\* 9 ** 9
UnboundedLimit == 387420489

\* limit or 9 ** 9 (None is written 0: both are falsy)
FindLimit(limit) == IF limit = 0 THEN UnboundedLimit ELSE limit

\* sqlite folds the case of ascii letters in LIKE
Fold(c) ==
    CASE c = "A" -> "a"
      [] OTHER   -> c

RECURSIVE Like(_, _)
Like(pattern, s) ==
    IF pattern = <<>> THEN s = <<>>
    ELSE IF Head(pattern) = "%"
         THEN Like(Tail(pattern), s) \/ (s # <<>> /\ Like(pattern, Tail(s)))
    ELSE IF s = <<>> THEN FALSE
    ELSE IF Head(pattern) = "_" \/ Fold(Head(pattern)) = Fold(Head(s))
         THEN Like(Tail(pattern), Tail(s))
    ELSE FALSE

\* '%' + tag + '%'
LikePattern(tag) == <<"%">> \o Chars(tag) \o <<"%">>

\* a compare_str joined with AND, as the two LIKE clauses are
TagCompareAll(tags, t) == \A i \in DOMAIN tags : t = tags[i]

\* compare_str: "tag='t1' OR tag='t2'"
TagCompare(tags, t) == \E i \in DOMAIN tags : t = tags[i]

\* like_str: "identifier LIKE '%t1%' AND identifier LIKE '%t2%'"
LikeCompare(tags, identifier) ==
    \A i \in DOMAIN tags : Like(LikePattern(tags[i]), Chars(identifier))

\* the display name of an element: the last part of its identifier
Name(identifier) ==
    CASE identifier = "c:/r/a" -> "a"
      [] identifier = "/r/b"   -> "b"
      [] OTHER                 -> identifier

\* name_str: "name LIKE '%t1%' AND name LIKE '%t2%'"
NameCompare(tags, identifier) ==
    \A i \in DOMAIN tags : Like(LikePattern(tags[i]), Chars(Name(identifier)))

\* the first n rows
Take(s, n) == IF n >= Len(s) THEN s ELSE SubSeq(s, 1, n)

\* find_all: every element, in the order of insertion, up to $(LIMIT)
SqlFindAll(db, limit) == Take(db.elements, limit)

\* find: the elements with a tag the tag clause accepts, or with an identifier
\* and a name the two LIKE clauses accept, up to $(LIMIT)
SqlFind(db, tags, limit) ==
    Take(FilterSeq(db.elements,
                   {id \in Members(db) :
                       \/ \E t \in TagSet(db, id) : TagCompare(tags, t)
                       \/ LikeCompare(tags, id) /\ NameCompare(tags, id)}),
         limit)

\* find(tags, limit); no rows when the statement fails
Find(db, tags, limit) ==
    IF ~db.created THEN <<>>
    ELSE IF tags.items # <<>> THEN SqlFind(db, AsList(tags), FindLimit(limit))
    ELSE SqlFindAll(db, FindLimit(limit))

\* find(None)
FindAll(db) == Find(db, NoTags, 0)

\* settings() with ValueError caught as IndexError is
SettingsLenient(db) ==
    IF ~db.created \/ db.settings.kind # "json" THEN Ret(NoSettings)
    ELSE Loads(db.settings)

\* settings(): the stored dict, or an empty dict when no row is there
\* (IndexError); what json.loads raises is not caught
Settings(db) ==
    IF ~db.created \/ db.settings.kind = "none" THEN Ret(NoSettings)
    ELSE Loads(db.settings)

\* settings().get(key, list())
ListOf(r, key) ==
    IF r.raised THEN Raise
    ELSE Ret(IF key \in r.val.nulls THEN None
             ELSE IF key \in r.val.keys THEN r.val[key] ELSE <<>>)

\* scan_locations()
ScanLocations(db) == ListOf(Settings(db), "scan_locations")

\* skip_regexes()
SkipRegexes(db) == ListOf(Settings(db), "skip_regex")

\* plugin_locations()
PluginLocations(db) == ListOf(Settings(db), "plugin_locations")

\* _conform: backslashes become forward slashes
Conform(item) ==
    CASE item = "c:\\r" -> "c:/r"
      [] item = "\\d"  -> "/d"
      [] OTHER          -> item

(***************************************************************************)
(* The catalog operations of Project. Each gives the database after the    *)
(* call and whether the call raised. A ConnectionContext commits when it   *)
(* is left, also when an exception leaves it, so what was executed stays.  *)
(***************************************************************************)
Create(db) == Execute(db, "create", OnlyId(""))

Add(db, identifier) == Execute(db, "add", OnlyId(identifier))

Remove(db, identifier) == Execute(db, "remove", OnlyId(identifier))

RECURSIVE TagEach(_, _, _)
\* a tag() that gives up at the first tag whose statements fail
TagNextStops(r, identifier, tags) ==
    IF r.raised \/ Head(tags) = QuotedTag THEN r ELSE TagEach(r.db, identifier, Tail(tags))

TagNext(r, identifier, tags) ==
    IF r.raised THEN r ELSE TagEach(r.db, identifier, Tail(tags))

TagEach(db, identifier, tags) ==
    IF tags = <<>> THEN [db |-> db, raised |-> FALSE]
    ELSE TagNext(Execute(db, "tags_add", Args(identifier, Lower(Head(tags)), NoSettings)),
                 identifier, tags)

\* a tag() that adds the identifier before it links the tags
TagAdds(db, identifier, tags) == TagEach(Add(db, identifier).db, identifier, AsList(tags))

Tag(db, identifier, tags) == TagEach(db, identifier, AsList(tags))

RECURSIVE UntagEach(_, _, _)
UntagNext(r, identifier, tags) ==
    IF r.raised THEN r ELSE UntagEach(r.db, identifier, Tail(tags))

UntagEach(db, identifier, tags) ==
    IF tags = <<>> THEN [db |-> db, raised |-> FALSE]
    ELSE UntagNext(Execute(db, "tags_rem", Args(identifier, Head(tags), NoSettings)),
                   identifier, tags)

Untag(db, identifier, tags) == UntagEach(db, identifier, AsList(tags))

SaveSettings(db, settings) == Execute(db, "settings_set", Args("", "", Dumps(settings)))

\* settings[key] = settings.get(key, list()) + [self._conform(item)]
WithItem(settings, key, item) ==
    [settings EXCEPT !.keys = @ \cup {key},
                     ![key] = Append(ListOf(Ret(settings), key).val, Conform(item))]

\* the changed dict is saved; None + [item] is a TypeError
SaveWith(db, settings, key, item) ==
    IF key \in settings.nulls THEN [db |-> db, raised |-> TRUE]
    ELSE SaveSettings(db, WithItem(settings, key, item))

\* settings = self.settings() raises, or the list under key gets the item
AddItem(db, r, key, item) ==
    IF r.raised THEN [db |-> db, raised |-> TRUE] ELSE SaveWith(db, r.val, key, item)

AddScanLocation(db, location) == AddItem(db, Settings(db), "scan_locations", location)

AddSkipRegex(db, pattern) == AddItem(db, Settings(db), "skip_regex", pattern)

\* settings[key] = settings.get(key, list()).remove(item): list.remove gives None
WithoutItem(settings, key, item) ==
    [settings EXCEPT !.keys = @ \cup {key}, !.nulls = @ \cup {key}, ![key] = <<>>]

\* None.remove is an AttributeError, list.remove of an absent item a ValueError
SaveWithout(db, settings, key, item) ==
    IF key \in settings.nulls \/ item \notin Range(ListOf(Ret(settings), key).val)
    THEN [db |-> db, raised |-> TRUE]
    ELSE SaveSettings(db, WithoutItem(settings, key, item))

RemoveItem(db, r, key, item) ==
    IF r.raised THEN [db |-> db, raised |-> TRUE] ELSE SaveWithout(db, r.val, key, item)

RemoveScanLocation(db, location) ==
    RemoveItem(db, Settings(db), "scan_locations", location)

RemoveSkipRegex(db, pattern) == RemoveItem(db, Settings(db), "skip_regex", pattern)

\* the settings part of add_plugin_location and remove_plugin_location
AddPluginLocation(db, location) == AddItem(db, Settings(db), "plugin_locations", location)

RemovePluginLocation(db, location) ==
    RemoveItem(db, Settings(db), "plugin_locations", location)

\* tags(identifier): the tags linked to the identifier; the order of the rows
\* is the statement's
TagsOf(db, identifier) ==
    IF ~db.created THEN <<>> ELSE CHOOSE f \in Orderings(TagSet(db, identifier)) : TRUE

(***************************************************************************)
(* Project.scan. The pass is followed through a record: the database, the  *)
(* trace of what the pass did (statements, commits, checks, emitted        *)
(* signals and exceptions raised by plugin code, in order), the list       *)
(* scanned_identifiers, and whether an exception is on its way out.        *)
(***************************************************************************)
Event(ev, identifier, tag) == [ev |-> ev, id |-> identifier, tag |-> tag]

Commit == Event("commit", "", "")

Log(sc, e) == [sc EXCEPT !.trace = Append(@, e)]

\* plugin code raised: the exception leaves scan()
Raised(sc, what, who) == [Log(sc, Event("raise", what, who)) EXCEPT !.raised = TRUE]

\* a statement went through _execute
Executed(sc, r, e) == [sc EXCEPT !.db = r.db, !.trace = Append(@, e), !.raised = r.raised]

\* a "locations" argument: None, one string, or a list of strings
NoLocations == [kind |-> "none", items |-> <<>>]

OneLocation(l) == [kind |-> "str", items |-> <<l>>]

LocationList(l) == [kind |-> "list", items |-> l]

\* locations = locations or self.scan_locations(); a lone string is wrapped
ResolveLocations(db, arg) ==
    IF arg.kind = "none" \/ arg.items = <<>> THEN ScanLocations(db).val ELSE arg.items

\* the callables connected to the two signals of a project, in the order of
\* their connection; "listener" returns, "faulty" raises
NoSignals == [scanned |-> <<>>, scan_complete |-> <<>>]

Callables == {"listener", "faulty"}

\* item(*args, **kwargs)
CallItem(sc, item, identifier) ==
    IF item = "faulty" THEN Raised(sc, identifier, item)
    ELSE Log(sc, Event("called", identifier, item))

\* an emit that guards each callable: one that raises is noted, the next is called
RECURSIVE EmitGuarded(_, _, _)
EmitGuarded(sc, callables, identifier) ==
    IF callables = <<>> THEN sc
    ELSE EmitGuarded(Log(sc, Event(IF Head(callables) = "faulty" THEN "raise" ELSE "called",
                                   identifier, Head(callables))),
                     Tail(callables), identifier)

\* Signal.emit: for item in self._callables: item(*args, **kwargs)
RECURSIVE Emit(_, _, _)
Emit(sc, callables, identifier) ==
    IF callables = <<>> \/ sc.raised THEN sc
    ELSE Emit(CallItem(sc, Head(callables), identifier), Tail(callables), identifier)

\* scanned_identifiers.append(identifier)
Appended(sc, identifier) ==
    IF sc.raised THEN sc ELSE [sc EXCEPT !.scanned = Append(@, identifier)]

\* a scan that announces an identifier once in a pass
AnnounceOnce(sc, identifier) ==
    IF sc.raised \/ identifier \in Range(sc.scanned) THEN sc
    ELSE Appended(Emit(Log(sc, Event("scanned", identifier, "")),
                       sc.signals.scanned, identifier),
                  identifier)

\* self.scanned.emit(identifier); scanned_identifiers.append(identifier)
Announce(sc, identifier) ==
    IF sc.raised THEN sc
    ELSE Appended(Emit(Log(sc, Event("scanned", identifier, "")),
                       sc.signals.scanned, identifier),
                  identifier)

\* a discovery that commits each insert before it announces the identifier
DiscoverOneCommitted(sc, identifier) ==
    Announce(Log(Executed(sc, Execute(sc.db, "add", OnlyId(identifier)),
                          Event("add", identifier, "")),
                 Commit),
             identifier)

\* the body of the innermost discovery loop
DiscoverOne(sc, identifier) ==
    Announce(Executed(sc, Execute(sc.db, "add", OnlyId(identifier)),
                      Event("add", identifier, "")),
             identifier)

RECURSIVE DiscoverItems(_, _)
DiscoverItems(sc, items) ==
    IF items = <<>> \/ sc.raised THEN sc
    ELSE DiscoverItems(DiscoverOne(sc, Head(items)), Tail(items))

\* a discovery loop that notes the exception of a generator and goes on
EndOfYieldSkips(sc, raises, plugin, location) ==
    IF raises /\ ~sc.raised THEN Log(sc, Event("raise", location, plugin)) ELSE sc

\* the generator is exhausted, or raises
EndOfYield(sc, raises, plugin, location) ==
    IF raises /\ ~sc.raised THEN Raised(sc, location, plugin) ELSE sc

Enumerate(sc, y, plugin, location) ==
    EndOfYield(DiscoverItems(sc, y.items), y.raises, plugin, location)

\* one scan plugin at one location
DiscoverSource(sc, plugin, location, skip, recursive, onDisk) ==
    IF sc.raised \/ ~CanRepresent(plugin, location, onDisk) THEN sc
    ELSE Enumerate(sc, Identifiers(plugin, location, skip, recursive, onDisk),
                   plugin, location)

RECURSIVE DiscoverPlugins(_, _, _, _, _, _)
\* a discovery that asks the sources of the registry last to first
DiscoverPluginsBackwards(sc, plugins, location, skip, recursive, onDisk) ==
    IF plugins = <<>> THEN sc
    ELSE DiscoverSource(
           DiscoverPlugins(sc, Tail(plugins), location, skip, recursive, onDisk),
           Head(plugins), location, skip, recursive, onDisk)

DiscoverPlugins(sc, plugins, location, skip, recursive, onDisk) ==
    IF plugins = <<>> THEN sc
    ELSE DiscoverPlugins(
           DiscoverSource(sc, Head(plugins), location, skip, recursive, onDisk),
           Tail(plugins), location, skip, recursive, onDisk)

RECURSIVE DiscoverLocations(_, _, _, _, _)
DiscoverLocations(sc, locations, skip, recursive, onDisk) ==
    IF locations = <<>> THEN sc
    ELSE DiscoverLocations(
           DiscoverPlugins(sc, ScanPlugins, Head(locations), skip, recursive, onDisk),
           Tail(locations), skip, recursive, onDisk)

\* the first with-block of scan: the discovery inserts, then the commit
Discover(sc, locations, skip, recursive, onDisk) ==
    Log(DiscoverLocations(sc, locations, skip, recursive, onDisk), Commit)

\* mapped_tags[identifier] = tags: a key keeps the place of its first insertion
RECURSIVE SetKey(_, _, _)
SetKey(mapped, identifier, tags) ==
    IF mapped = <<>> THEN <<[id |-> identifier, tags |-> tags]>>
    ELSE IF Head(mapped).id = identifier
         THEN <<[id |-> identifier, tags |-> tags]>> \o Tail(mapped)
         ELSE <<Head(mapped)>> \o SetKey(Tail(mapped), identifier, tags)

\* all_tags.extend(expected_tags); mapped_tags[scanned_identifier] = expected_tags
Expect(acc, identifier, expected) ==
    IF expected.raised THEN [acc EXCEPT !.raised = TRUE, !.failed = identifier]
    ELSE [acc EXCEPT !.all_tags = @ \o expected.val,
                     !.mapped = SetKey(@, identifier, expected.val)]

\* element = self.get(scanned_identifier); if not element: continue
CollectOne(acc, identifier, element) ==
    IF element = <<>> THEN acc
    ELSE Expect(acc, identifier, MandatoryTags(element, identifier))

\* the loop that asks each scanned identifier's composite for its tags
RECURSIVE CollectTags(_, _)
CollectTags(acc, identifiers) ==
    IF identifiers = <<>> \/ acc.raised THEN acc
    ELSE CollectTags(CollectOne(acc, Head(identifiers), Get(CachedDataPlugins, Head(identifiers))),
                     Tail(identifiers))

Collected(identifiers) ==
    CollectTags([all_tags |-> <<>>, mapped |-> <<>>, raised |-> FALSE, failed |-> ""],
                identifiers)

\* the second with-block: one tag_insert per distinct tag, in the order the
\* python set hands them out, then the commit
RECURSIVE TagInsertEach(_, _)
TagInsertEach(sc, tags) ==
    IF tags = <<>> \/ sc.raised THEN sc
    ELSE TagInsertEach(
           Executed(sc, Execute(sc.db, "tag_insert", Args("", Head(tags), NoSettings)),
                    Event("tag_insert", "", Head(tags))),
           Tail(tags))

TagInsertAll(sc, order) == Log(TagInsertEach(sc, order), Commit)

\* the third with-block: one tag_connect per identifier and tag, then the commit
RECURSIVE TagConnectEach(_, _, _)
\* a linking loop that gives up on an identifier at the first link that exists
TagConnectEachStop(sc, identifier, tags) ==
    IF tags = <<>> \/ sc.raised \/ LinkCount(sc.db, identifier, Head(tags)) > 0 THEN sc
    ELSE TagConnectEach(
           Executed(sc, Execute(sc.db, "tag_connect", Args(identifier, Head(tags), NoSettings)),
                    Event("tag_connect", identifier, Head(tags))),
           identifier, Tail(tags))

TagConnectEach(sc, identifier, tags) ==
    IF tags = <<>> \/ sc.raised THEN sc
    ELSE TagConnectEach(
           Executed(sc, Execute(sc.db, "tag_connect", Args(identifier, Head(tags), NoSettings)),
                    Event("tag_connect", identifier, Head(tags))),
           identifier, Tail(tags))

RECURSIVE TagConnectMapped(_, _)
TagConnectMapped(sc, mapped) ==
    IF mapped = <<>> \/ sc.raised THEN sc
    ELSE TagConnectMapped(TagConnectEach(sc, Head(mapped).id, Head(mapped).tags),
                          Tail(mapped))

\* a linking phase that first drops the links of the identifiers of the pass
TagConnectAllFresh(sc, mapped) ==
    IF sc.raised THEN sc
    ELSE Log(TagConnectMapped(
               [sc EXCEPT !.db.links =
                    [p \in {q \in DOMAIN @ : q[1] \notin Range(sc.scanned)} |-> @[p]]],
               mapped),
             Commit)

TagConnectAll(sc, mapped) ==
    IF sc.raised THEN sc ELSE Log(TagConnectMapped(sc, mapped), Commit)

\* self.remove(identifier): a connection of its own, committed when left
RemoveInvalid(sc, identifier) ==
    Log(Executed(sc, Remove(sc.db, identifier), Event("remove", identifier, "")), Commit)

\* the plugins' verdicts on one identifier: the first NOT_VALID removes it
RECURSIVE PruneCheck(_, _, _, _)
\* a clean-up that removes whatever no plugin vouches for
JudgeStrict(sc, c, plugins, identifier, onDisk) ==
    IF c.raised THEN Raised(sc, identifier, Head(plugins))
    ELSE IF c.val # IS_VALID THEN RemoveInvalid(sc, identifier)
    ELSE PruneCheck(sc, Tail(plugins), identifier, onDisk)

Judge(sc, c, plugins, identifier, onDisk) ==
    IF c.raised THEN Raised(sc, identifier, Head(plugins))
    ELSE IF c.val = NOT_VALID THEN RemoveInvalid(sc, identifier)
    ELSE PruneCheck(sc, Tail(plugins), identifier, onDisk)

PruneCheck(sc, plugins, identifier, onDisk) ==
    IF plugins = <<>> \/ sc.raised THEN sc
    ELSE Judge(Log(sc, Event("check", identifier, Head(plugins))),
               Check(Head(plugins), identifier, onDisk), plugins, identifier, onDisk)

RECURSIVE PruneEach(_, _, _)
PruneEach(sc, identifiers, onDisk) ==
    IF identifiers = <<>> \/ sc.raised THEN sc
    ELSE PruneEach(PruneCheck(sc, ScanPlugins, Head(identifiers), onDisk),
                   Tail(identifiers), onDisk)

\* a clean-up over the identifiers of this pass only
PruneScanned(sc, onDisk) ==
    IF sc.raised THEN sc ELSE PruneEach(sc, Dedupe(sc.scanned), onDisk)

\* the clean-up loop over find(None)
Prune(sc, onDisk) == IF sc.raised THEN sc ELSE PruneEach(sc, FindAll(sc.db), onDisk)

\* a full part that cleans up before it writes the tags
WriteTagsPruneFirst(sc, c, order, onDisk) ==
    IF c.raised THEN Raised(sc, c.failed, "")
    ELSE TagConnectAll(TagInsertAll(Prune(sc, onDisk), order), c.mapped)

\* the writes of the "if full:" block, once the tags are collected
WriteTags(sc, c, order, onDisk) ==
    IF c.raised THEN Raised(sc, c.failed, "")
    ELSE Prune(TagConnectAll(TagInsertAll(sc, order), c.mapped), onDisk)

\* the "if full:" block
FullPart(sc, order, onDisk) == WriteTags(sc, Collected(sc.scanned), order, onDisk)

\* skip_pattern.search(result), for the patterns of this model: "/a" is
\* literal text, "\\d" is a digit, "/d" and "tmp" occur in no identifier
Search(pattern, identifier) ==
    CASE pattern = "/a"   -> identifier = "c:/r/a"
      [] pattern = "\\d" -> identifier = "u1"
      [] OTHER            -> FALSE

\* re.compile('(' + ')|('.join(patterns) + ')'): what any of the patterns matches
Compiled(patterns) ==
    {identifier \in Ids : \E i \in DOMAIN patterns : Search(patterns[i], identifier)}

\* a scan that compiles no pattern, whatever is stored
SkipNothing(r) == {}

\* if patterns: skip_regex = re.compile(...); otherwise skip_regex stays None
SkipPattern(r) == IF r.raised \/ r.val = None \/ r.val = <<>> THEN {} ELSE Compiled(r.val)

\* the identifiers the compiled skip pattern matches
SkipSet(db) == SkipPattern(SkipRegexes(db))

ScanStart(db, signals) ==
    [db |-> db, signals |-> signals, trace |-> <<>>, scanned |-> <<>>, raised |-> FALSE]

\* a scan that runs the full part whatever "full" says
AfterDiscoveryAlways(sc, full, order, onDisk) ==
    IF sc.raised THEN sc ELSE FullPart(sc, order, onDisk)

\* if full: ...
AfterDiscovery(sc, full, order, onDisk) ==
    IF sc.raised \/ ~full THEN sc ELSE FullPart(sc, order, onDisk)

\* self.scan_complete.emit(); return scanned_identifiers
Complete(sc) ==
    IF sc.raised THEN sc
    ELSE Emit(Log(sc, Event("scan_complete", "", "")), sc.signals.scan_complete, "")

\* a scan that emits scan_complete when discovery is over, before the full part
ScanEmitsEarly(db, signals, arg, recursive, full, order, onDisk) ==
    AfterDiscovery(
        Complete(Discover(ScanStart(db, signals), ResolveLocations(db, arg), SkipSet(db),
                          recursive, onDisk)),
        full, order, onDisk)

\* scan(locations, recursive, full); order is the iteration order of set(all_tags)
\* it starts with self.skip_regexes(), which reads the settings
Scan(db, signals, arg, recursive, full, order, onDisk) ==
    IF SkipRegexes(db).raised THEN Raised(ScanStart(db, signals), "", "settings")
    ELSE Complete(AfterDiscovery(
           Discover(ScanStart(db, signals), ResolveLocations(db, arg), SkipSet(db), recursive, onDisk),
           full, order, onDisk))

\* the distinct tags a pass will insert: set(all_tags)
TagSetOf(sc) == IF sc.raised THEN {} ELSE Range(Collected(sc.scanned).all_tags)

ScanTagSet(db, signals, arg, recursive, onDisk) ==
    IF SkipRegexes(db).raised THEN {}
    ELSE TagSetOf(Discover(ScanStart(db, signals), ResolveLocations(db, arg), SkipSet(db),
                           recursive, onDisk))

(***************************************************************************)
(* The state: the project file, the files on disk, and a record of the     *)
(* last call made on the project (what it was given, what it did and how   *)
(* it ended).                                                              *)
(***************************************************************************)
VARIABLES db, signals, traits, disk, last

vars == <<db, signals, traits, disk, last>>

\* what callers pass
AddInputs == {"c:", "u1"}

RemoveInputs == {"c:", "u1"}

TagIdInputs == {"c:/r/a", "u1"}

TagInputs == {OneTag("Meat"), TagList(<<"Meat", "meat">>)}

UntagInputs == TagInputs \cup {OneTag("meat")}

\* tag(identifier, tags) with a tag whose statements fail
QuotedTagInputs ==
    TagInputs \cup {TagList(<<"Hunter", QuotedTag>>), TagList(<<QuotedTag, "Meat">>)}

\* find(tags, limit); limit 0 stands for no limit given
FindInputs ==
    { <<NoTags, 0>>, <<NoTags, 1>>, <<OneTag("*"), 0>>, <<OneTag("*"), 1>>,
      <<OneTag("meat"), 0>>, <<TagList(<<"meat", "a">>), 0>>,
      <<TagList(<<"u", "1">>), 0>>, <<TagList(<<"u", "a">>), 0>>,
      <<OneTag("r"), 0>>, <<OneTag("A"), 0>>, <<OneTag("_"), 0>> }

\* save_settings(settings): an empty dict, a list of locations, and a
\* location with a quote in it
SettingsInputs ==
    { NoSettings,
      [NoSettings EXCEPT !.keys = {"scan_locations"}, !.scan_locations = <<"c:/r/a">>],
      [NoSettings EXCEPT !.keys = {"scan_locations"}, !.scan_locations = <<"c:/o'r">>] }

\* the lists kept in the settings
SettingsKeys == {"scan_locations", "skip_regex", "plugin_locations"}

LocationInputs == {"c:/r", "c:\\r"}

\* skip patterns: a digit, and a plain word
RegexInputs == {"\\d", "tmp"}

\* scan(locations, recursive): the stored locations, a file, a directory
ScanInputs ==
    { <<NoLocations, TRUE>>, <<OneLocation("c:/r/a"), TRUE>>,
      <<OneLocation("c:/r/a"), FALSE>>, <<LocationList(<<"c:/r">>), TRUE>>,
      <<LocationList(<<"c:/r">>), FALSE>> }

Outcome(raised) == IF raised THEN "raised" ELSE "returned"

Call(op, identifier, tags, arg, recursive, full) ==
    [op |-> op, id |-> identifier, tags |-> tags,
     arg |-> arg, recursive |-> recursive, full |-> full, limit |-> 0]

NoCall == Call("none", "", <<>>, NoLocations, FALSE, FALSE)

\* the call before this one was the same call, and it returned
Repeats(call) == last.call = call /\ last.outcome = "returned"

\* the record of a call that ended with result r
Record(call, r, trace, result) ==
    [call |-> call, outcome |-> Outcome(r.raised), trace |-> trace, result |-> result,
     repeat |-> Repeats(call)]

Returns(call, r) ==
    /\ db' = r.db
    /\ last' = Record(call, r, <<>>, <<>>)
    /\ UNCHANGED <<signals, traits, disk>>

ScanReturns(call, sc) ==
    /\ db' = sc.db
    /\ last' = Record(call, sc, sc.trace, sc.scanned)
    /\ UNCHANGED <<signals, traits, disk>>

\* the data factory's paths, self._data_plugins re-cached from it, and the
\* views that get() has given since
Loaded(paths) ==
    [paths |-> paths, data_plugins |-> SortByPriority(Registered(paths)),
     got |-> [i \in {} |-> <<>>]]

Init ==
    /\ db = EmptyDb
    /\ signals = NoSignals
    /\ traits = Loaded(<<>>)
    /\ disk = Files
    /\ last = [call |-> NoCall, outcome |-> "returned", trace |-> <<>>, result |-> <<>>,
               repeat |-> FALSE]

DoCreate == Returns(Call("create", "", <<>>, NoLocations, FALSE, FALSE), Create(db))

DoAdd(identifier) ==
    Returns(Call("add", identifier, <<>>, NoLocations, FALSE, FALSE), Add(db, identifier))

DoRemove(identifier) ==
    Returns(Call("remove", identifier, <<>>, NoLocations, FALSE, FALSE),
            Remove(db, identifier))

DoTag(identifier, tags) ==
    Returns(Call("tag", identifier, AsList(tags), NoLocations, FALSE, FALSE),
            Tag(db, identifier, tags))

DoUntag(identifier, tags) ==
    Returns(Call("untag", identifier, AsList(tags), NoLocations, FALSE, FALSE),
            Untag(db, identifier, tags))

\* a call that reads: the project file is left as it is
Reads(call, result) ==
    /\ last' = [call |-> call, outcome |-> "returned", trace |-> <<>>,
                result |-> result, repeat |-> Repeats(call)]
    /\ UNCHANGED <<db, signals, traits, disk>>

\* a call that reads and gives r, or raises
Answers(call, r, result) ==
    /\ last' = [call |-> call, outcome |-> Outcome(r.raised), trace |-> <<>>,
                result |-> IF r.raised THEN <<>> ELSE result, repeat |-> Repeats(call)]
    /\ UNCHANGED <<db, signals, traits, disk>>

DoSettings ==
    Answers(Call("settings", "", <<>>, NoLocations, FALSE, FALSE),
            Settings(db), <<Settings(db).val>>)

\* scan_locations(), skip_regexes(), plugin_locations()
DoSettingsList(key) ==
    Answers(Call(key, "", <<>>, NoLocations, FALSE, FALSE),
            ListOf(Settings(db), key), ListOf(Settings(db), key).val)

DoSaveSettings(settings) ==
    Returns(Call("save_settings", "", <<>>, settings, FALSE, FALSE),
            SaveSettings(db, settings))

DoTags(identifier) ==
    Reads(Call("tags", identifier, <<>>, NoLocations, FALSE, FALSE), TagsOf(db, identifier))

\* the settings row is overwritten from outside the project with a text
\* that is not JSON
CorruptSettings ==
    /\ db.created
    /\ db' = [db EXCEPT !.settings = Malformed]
    /\ last' = [call |-> NoCall, outcome |-> "returned", trace |-> <<>>,
                result |-> <<>>, repeat |-> FALSE]
    /\ UNCHANGED <<signals, traits, disk>>

DoFind(tags, limit) ==
    Reads([Call("find", "", AsList(tags), NoLocations, FALSE, FALSE) EXCEPT !.limit = limit],
          Find(db, tags, limit))

DoAddScanLocation(location) ==
    /\ ~ScanLocations(db).raised => Len(ScanLocations(db).val) < MaxLocs
    /\ Returns(Call("add_scan_location", location, <<>>, NoLocations, FALSE, FALSE),
               AddScanLocation(db, location))

DoRemoveScanLocation(location) ==
    Returns(Call("remove_scan_location", location, <<>>, NoLocations, FALSE, FALSE),
            RemoveScanLocation(db, location))

DoAddSkipRegex(pattern) ==
    /\ ~SkipRegexes(db).raised => Len(SkipRegexes(db).val) < MaxLocs
    /\ Returns(Call("add_skip_regex", pattern, <<>>, NoLocations, FALSE, FALSE),
               AddSkipRegex(db, pattern))

DoRemoveSkipRegex(pattern) ==
    Returns(Call("remove_skip_regex", pattern, <<>>, NoLocations, FALSE, FALSE),
            RemoveSkipRegex(db, pattern))

\* the settings were changed, then the factories, and the data plugins are
\* cached again; an exception in the settings part leaves the factories alone
PluginsChanged(call, r, paths) ==
    /\ db' = r.db
    /\ last' = Record(call, r, <<>>, <<>>)
    /\ traits' = IF r.raised THEN traits ELSE Loaded(paths)
    /\ UNCHANGED <<signals, disk>>

DoAddPluginLocation(location) ==
    /\ location \notin Range(traits.paths)
    /\ PluginsChanged(Call("add_plugin_location", location, <<>>, NoLocations, FALSE, FALSE),
                      AddPluginLocation(db, location), Append(traits.paths, location))

DoRemovePluginLocation(location) ==
    PluginsChanged(Call("remove_plugin_location", location, <<>>, NoLocations, FALSE, FALSE),
                   RemovePluginLocation(db, location),
                   FilterSeq(traits.paths, PluginDirs \ {location}))

\* a get() that binds nothing for an identifier the catalog does not hold
ViewOfMember(identifier) ==
    IF identifier \in Members(db) THEN Get(traits.data_plugins, identifier) ELSE <<>>

\* self.get(identifier), from the cached self._data_plugins
View(identifier) == Get(traits.data_plugins, identifier)

\* the first view given for an identifier is kept
Remember(got, identifier, view) ==
    [i \in DOMAIN got \cup {identifier} |-> IF i \in DOMAIN got THEN got[i] ELSE view]

DoGet(identifier) ==
    /\ last' = [call |-> Call("get", identifier, <<>>, NoLocations, FALSE, FALSE),
                outcome |-> "returned", trace |-> <<>>, result |-> View(identifier),
                repeat |-> identifier \in DOMAIN traits.got]
    /\ traits' = [traits EXCEPT !.got = Remember(@, identifier, View(identifier))]
    /\ UNCHANGED <<db, signals, disk>>

DoScan(arg, recursive, full) ==
    \E order \in Orderings(IF full THEN ScanTagSet(db, signals, arg, recursive, disk) ELSE {}) :
        ScanReturns(Call("scan", "", <<>>, arg, recursive, full),
                    Scan(db, signals, arg, recursive, full, order, disk))

\* project.scanned.connect(item), project.scan_complete.connect(item)
Connect(signal, item) ==
    /\ Len(signals[signal]) < MaxCallables
    /\ signals' = [signals EXCEPT ![signal] = Append(@, item)]
    /\ last' = [call |-> NoCall, outcome |-> "returned", trace |-> <<>>,
                result |-> <<>>, repeat |-> FALSE]
    /\ UNCHANGED <<db, traits, disk>>

\* the world outside the project: a file is deleted, or put back
DeleteFile(f) ==
    /\ f \in disk
    /\ disk' = disk \ {f}
    /\ last' = [call |-> NoCall, outcome |-> "returned", trace |-> <<>>,
                result |-> <<>>, repeat |-> FALSE]
    /\ UNCHANGED <<db, signals, traits>>

RestoreFile(f) ==
    /\ f \notin disk
    /\ disk' = disk \cup {f}
    /\ last' = [call |-> NoCall, outcome |-> "returned", trace |-> <<>>,
                result |-> <<>>, repeat |-> FALSE]
    /\ UNCHANGED <<db, signals, traits>>

Next ==
    \/ DoCreate
    \/ \E id \in AddInputs : DoAdd(id)
    \/ \E id \in RemoveInputs : DoRemove(id)
    \/ \E id \in TagIdInputs, t \in TagInputs : DoTag(id, t)
    \/ \E id \in TagIdInputs, t \in UntagInputs : DoUntag(id, t)
    \/ \E l \in LocationInputs : DoAddScanLocation(l)
    \/ \E a \in ScanInputs, full \in BOOLEAN : DoScan(a[1], a[2], full)
    \/ \E f \in Files : DeleteFile(f)
    \/ \E f \in Files : RestoreFile(f)

Spec == Init /\ [][Next]_vars

(***************************************************************************)
(* The catalog with its queries and its settings: every call but the scan  *)
(* of stored locations, one scan of a directory, and a settings row that   *)
(* may be overwritten from outside.                                        *)
(***************************************************************************)
NextCatalog ==
    \/ DoCreate
    \/ \E id \in AddInputs : DoAdd(id)
    \/ \E id \in RemoveInputs : DoRemove(id)
    \/ \E id \in TagIdInputs, t \in TagInputs : DoTag(id, t)
    \/ \E id \in TagIdInputs, t \in UntagInputs : DoUntag(id, t)
    \/ \E id \in TagIdInputs : DoTags(id)
    \/ \E f \in FindInputs : DoFind(f[1], f[2])
    \/ DoSettings
    \/ \E key \in SettingsKeys : DoSettingsList(key)
    \/ \E m \in SettingsInputs : DoSaveSettings(m)
    \/ \E l \in LocationInputs : DoAddScanLocation(l)
    \/ \E full \in BOOLEAN : DoScan(LocationList(<<"c:/r">>), TRUE, full)
    \/ CorruptSettings

SpecCatalog == Init /\ [][NextCatalog]_vars

\* the catalog and its tags, with tags whose statements fail and identifiers
\* that were never added
NextTags ==
    \/ DoCreate
    \/ \E id \in AddInputs : DoAdd(id)
    \/ \E id \in RemoveInputs \cup TagIdInputs : DoRemove(id)
    \/ \E id \in TagIdInputs, t \in QuotedTagInputs : DoTag(id, t)
    \/ \E id \in TagIdInputs, t \in UntagInputs : DoUntag(id, t)

SpecTags == Init /\ [][NextTags]_vars

\* the lists kept in the settings: scan locations and skip patterns
NextSettings ==
    \/ DoCreate
    \/ \E l \in LocationInputs : DoAddScanLocation(l)
    \/ \E l \in LocationInputs : DoRemoveScanLocation(l)
    \/ \E p \in RegexInputs : DoAddSkipRegex(p)
    \/ \E p \in RegexInputs \cup {"/d"} : DoRemoveSkipRegex(p)
    \/ \E key \in {"scan_locations", "skip_regex"} : DoSettingsList(key)

SpecSettings == Init /\ [][NextSettings]_vars

\* the views of a project whose plugin locations change
NextViews ==
    \/ DoCreate
    \/ \E id \in AddInputs : DoAdd(id)
    \/ \E l \in PluginDirs : DoAddPluginLocation(l)
    \/ \E l \in PluginDirs : DoRemovePluginLocation(l)
    \/ \E id \in Ids : DoGet(id)

SpecViews == Init /\ [][NextViews]_vars

\* the scans of a project whose signals have callables connected
NextSignals ==
    \/ \E signal \in {"scanned", "scan_complete"}, item \in Callables : Connect(signal, item)
    \/ DoCreate
    \/ \E full \in BOOLEAN : DoScan(LocationList(<<"c:/r">>), TRUE, full)

SpecSignals == Init /\ [][NextSignals]_vars

\* the scans of a project that has skip patterns stored
NextSkip ==
    \/ DoCreate
    \/ \E p \in {"/a", "\\d"} : DoAddSkipRegex(p)
    \/ \E p \in {"/a", "/d"} : DoRemoveSkipRegex(p)
    \/ \E id \in TagIdInputs : DoAdd(id)
    \/ \E full \in BOOLEAN : DoScan(LocationList(<<"c:/r">>), TRUE, full)
    \/ \E f \in Files : DeleteFile(f)
    \/ \E f \in Files : RestoreFile(f)

SpecSkip == Init /\ [][NextSkip]_vars

\* a project on a disk that has a directory without a drive letter as well
InitRoot ==
    /\ db = EmptyDb
    /\ signals = NoSignals
    /\ traits = Loaded(<<>>)
    /\ disk = Files \cup RootFiles
    /\ last = [call |-> NoCall, outcome |-> "returned", trace |-> <<>>, result |-> <<>>,
               repeat |-> FALSE]

\* the scans of the two directories, while files come and go
NextRoot ==
    \/ DoCreate
    \/ \E l \in {"/r", "c:/r"}, full \in BOOLEAN : DoScan(LocationList(<<l>>), TRUE, full)
    \/ \E f \in Files \cup RootFiles : DeleteFile(f)
    \/ \E f \in Files \cup RootFiles : RestoreFile(f)

SpecRoot == InitRoot /\ [][NextRoot]_vars

(***************************************************************************)
(* What the last call did.                                                 *)
(***************************************************************************)
IsScan == last.call.op = "scan"

FullScan == IsScan /\ last.call.full

LightScan == IsScan /\ ~last.call.full

Returned == last.outcome = "returned"

\* the places of the trace where an event of a kind stands
EventsOf(ev) == {i \in DOMAIN last.trace : last.trace[i].ev = ev}

\* the catalog writes of a pass
Writes == {"add", "tag_insert", "tag_connect", "remove", "commit"}

(***************************************************************************)
(* C1. A full scan that repeats the full scan before it, with the same     *)
(* locations, the same files on disk and the same plugins, returns and     *)
(* leaves the membership of the catalog and every tag set as they were.    *)
(***************************************************************************)
C1_RescanIdempotent ==
    [][(last'.call.op = "scan" /\ last'.call.full /\ last'.repeat)
         => /\ last'.outcome = "returned"
            /\ Members(db') = Members(db)
            /\ \A id \in Ids : TagSet(db', id) = TagSet(db, id)]_vars

\* a repeated full scan that linked tags again and pruned again
C1_Witness ==
    /\ FullScan /\ last.repeat /\ Returned
    /\ EventsOf("tag_connect") # {}
    /\ EventsOf("remove") # {}
    /\ Members(db) # {}

C3_CompleteOnceAtEnd ==
    (IsScan /\ Returned) =>
        /\ Cardinality(EventsOf("scan_complete")) = 1
        /\ last.trace[Len(last.trace)].ev = "scan_complete"
        /\ \A i \in DOMAIN last.trace :
             last.trace[i].ev \in Writes => i < Len(last.trace)

\* a full scan whose last write is the removal of a pruned identifier
C3_Witness ==
    /\ FullScan /\ Returned /\ ~last.repeat
    /\ Len(last.trace) >= 3
    /\ last.trace[Len(last.trace) - 2].ev = "remove"
    /\ last.trace[Len(last.trace) - 1].ev = "commit"

(***************************************************************************)
(* C4. As claimed: within one scan the scanned signal is emitted at most   *)
(* once for an identifier.                                                 *)
(***************************************************************************)
ScannedFor(identifier) == {i \in EventsOf("scanned") : last.trace[i].id = identifier}

C4_AtMostOncePerIdentifier ==
    IsScan => \A id \in Ids : Cardinality(ScannedFor(id)) <= 1

(***************************************************************************)
(* C4, amended. The scanned signal is emitted once for every identifier a  *)
(* scan plugin yields, right after the insert of that identifier, and the  *)
(* identifier is appended to the returned list: an identifier yielded      *)
(* several times in a pass (by two plugins, or twice by one) is announced  *)
(* as many times as it was yielded.                                        *)
(***************************************************************************)
C4_OncePerYield ==
    IsScan =>
        /\ \A i \in EventsOf("add") :
               /\ i < Len(last.trace)
               /\ last.trace[i + 1] = Event("scanned", last.trace[i].id, "")
        /\ \A i \in EventsOf("scanned") :
               i > 1 /\ last.trace[i - 1] = Event("add", last.trace[i].id, "")
        /\ \A id \in Ids : Count(last.result, id) = Cardinality(ScannedFor(id))

\* one identifier yielded by both plugins and another twice by one plugin
C4_Witness ==
    /\ IsScan /\ Returned
    /\ Cardinality(ScannedFor("u1")) = 2
    /\ Cardinality(ScannedFor("c:/r/a")) = 2

(***************************************************************************)
(* C5. After a full scan that returns, the catalog holds no identifier     *)
(* that a scan plugin's check judges NOT_VALID, discovered in this pass or *)
(* not.                                                                    *)
(***************************************************************************)
C5_NoInvalidMemberLeft ==
    (FullScan /\ Returned) => \A id \in Members(db) : ~JudgedInvalid(id, disk)

\* the pass removed an identifier it had not discovered
C5_Witness ==
    /\ FullScan /\ Returned
    /\ \E i \in EventsOf("remove") :
           /\ last.trace[i].id \notin Range(last.result)
           /\ last.trace[i].id \notin Members(db)
    /\ Members(db) # {}

(***************************************************************************)
(* C6. A scan removes an identifier only when a scan plugin's check        *)
(* judges it NOT_VALID: an identifier of the catalog that every plugin     *)
(* judges IS_VALID or UNKNOWN is still in the catalog after the scan.      *)
(***************************************************************************)
C6_PruneOnlyInvalid ==
    [][last'.call.op = "scan" =>
         /\ \A i \in DOMAIN last'.trace :
                last'.trace[i].ev = "remove" => JudgedInvalid(last'.trace[i].id, disk)
         /\ \A id \in Members(db) : ~JudgedInvalid(id, disk) => id \in Members(db')]_vars

\* a pass that asked about an identifier no plugin can judge and about a file
\* that exists, and kept both
C6_Witness ==
    /\ FullScan /\ Returned
    /\ {"u1", "c:/r/a"} \subseteq Members(db)
    /\ \E i \in EventsOf("check") : last.trace[i].id = "u1"
    /\ \E i \in EventsOf("check") : last.trace[i].id = "c:/r/a"

(***************************************************************************)
(* C7. A scan with full=False only discovers: it writes no tag row, makes  *)
(* and removes no link, asks no plugin's check and removes no identifier.  *)
(***************************************************************************)
C7_LightScanOnlyDiscovers ==
    [][(last'.call.op = "scan" /\ ~last'.call.full) =>
         /\ db'.tagRows = db.tagRows
         /\ db'.links = db.links
         /\ Members(db) \subseteq Members(db')
         /\ \A i \in DOMAIN last'.trace :
                last'.trace[i].ev \in {"add", "scanned", "commit", "raise", "scan_complete"}]_vars

\* a light pass that found an identifier with mandatory tags and left in the
\* catalog an identifier a check would have removed
C7_Witness ==
    /\ LightScan /\ Returned /\ db.created
    /\ \E id \in Range(last.result) : Get(CachedDataPlugins, id) # <<>> /\ TagSet(db, id) = {}
    /\ \E id \in Members(db) : JudgedInvalid(id, disk)

(***************************************************************************)
(* C8. After a full scan that returns, every identifier the pass           *)
(* discovered that has a composite and is still in the catalog is linked   *)
(* to each of its mandatory tags.                                          *)
(***************************************************************************)
C8_MandatoryTagsStored ==
    (FullScan /\ Returned) =>
        \A id \in Range(last.result) :
            (id \in Members(db) /\ Get(CachedDataPlugins, id) # <<>>) =>
                Range(MandatoryTags(Get(CachedDataPlugins, id), id).val) \subseteq TagSet(db, id)

\* a pass that found an identifier with two mandatory tags and one with no
\* composite, and linked the tags
C8_Witness ==
    /\ FullScan /\ Returned /\ db.created
    /\ "u1" \in Range(last.result) /\ Get(CachedDataPlugins, "u1") = <<>>
    /\ "c:/r/a" \in Range(last.result) \cap Members(db)
    /\ TagSet(db, "c:/r/a") = {"meat", "Hunter"}
    /\ EventsOf("tag_connect") # {}

(***************************************************************************)
(* C9. The catalog never holds an identifier twice, whatever adds, removes *)
(* and scans came before; an add returns, and after it the identifier is   *)
(* there once, also when it was there already.                             *)
(***************************************************************************)
C9_IdentifierUnique ==
    [][/\ NoDup(db'.elements)
       /\ last'.call.op = "add" =>
            /\ last'.outcome = "returned"
            /\ db.created => Count(db'.elements, last'.call.id) = 1]_vars

\* the same add twice in a row
C9_Witness ==
    /\ last.call.op = "add" /\ last.repeat /\ Returned
    /\ db.created
    /\ Count(db.elements, last.call.id) = 1

(***************************************************************************)
(* C10. No identifier is linked to a tag by more than one row, whatever    *)
(* tag calls and scans came before; a tag call returns, and one that       *)
(* repeats the call before it leaves every link as it was.                 *)
(***************************************************************************)
C10_TagUnique ==
    [][/\ \A id \in Ids, t \in Tags : LinkCount(db', id, t) <= 1
       /\ last'.call.op = "tag" =>
            /\ last'.outcome = "returned"
            /\ last'.repeat => db'.links = db.links]_vars

\* the same tag call twice in a row on an identifier of the catalog
C10_Witness ==
    /\ last.call.op = "tag" /\ last.repeat /\ Returned
    /\ last.call.id \in Members(db)
    /\ LinkCount(db, last.call.id, "meat") = 1

(***************************************************************************)
(* C11. Every tag value stored in the catalog, and every tag linked to an  *)
(* identifier, is lowercase, whatever tag calls and scans came before.     *)
(***************************************************************************)
C11_StoredTagsLowercase ==
    /\ \A t \in db.tagRows : Lower(t) = t
    /\ \A id \in Ids : \A t \in TagSet(db, id) : Lower(t) = t

(***************************************************************************)
(* C12. An untag call that follows a tag call with the same identifier and *)
(* the same tags leaves the identifier without the lowercase form of each  *)
(* of these tags, and leaves its other tags as they were.                  *)
(***************************************************************************)
C12_UntagUndoesTag ==
    [][(/\ last.call.op = "tag" /\ last.outcome = "returned"
        /\ last'.call.op = "untag"
        /\ last'.call.id = last.call.id
        /\ last'.call.tags = last.call.tags)
         => /\ last'.outcome = "returned"
            /\ \A t \in Range(last.call.tags) : Lower(t) \notin TagSet(db', last.call.id)
            /\ \A t \in Tags \ {Lower(u) : u \in Range(last.call.tags)} :
                   t \in TagSet(db', last.call.id) <=> t \in TagSet(db, last.call.id)]_vars

(***************************************************************************)
(* C13. find(None) and find('*') return every identifier of the catalog    *)
(* when no limit is given, and at most limit identifiers otherwise.        *)
(***************************************************************************)
IsFind == last.call.op = "find"

C13_FindEverything ==
    (IsFind /\ last.call.tags \in {<<>>, <<"*">>}) =>
        /\ last.call.limit = 0 => last.result = db.elements
        /\ last.call.limit > 0 => Len(last.result) <= last.call.limit

(***************************************************************************)
(* C14. As claimed: for a non-empty tag list find returns exactly the      *)
(* identifiers that have one of the given tags, or whose identifier and    *)
(* name each contain every given tag as a substring.                       *)
(***************************************************************************)
\* t occurs in s, character for character
Substring(t, s) ==
    \E i \in 1..(Len(s) - Len(t) + 1) : SubSeq(s, i, i + Len(t) - 1) = t

HasOneOf(identifier, tags) == \E t \in TagSet(db, identifier) : t \in Range(tags)

LikeSubstring(t, s) ==
    \E i \in 1..(Len(s) - Len(t) + 1) :
        \A k \in 1..Len(t) : t[k] = "_" \/ Fold(t[k]) = Fold(s[i + k - 1])

C15_SettingsRoundTrip ==
    [][/\ (last'.call.op = "settings" /\ db.settings.kind = "none") =>
             (last'.outcome = "returned" /\ last'.result = <<NoSettings>>)
       /\ (db.created /\ last.call.op = "save_settings" /\ last'.call.op = "settings") =>
             (last'.outcome = "returned" /\ last'.result = <<last.call.arg>>)]_vars

(***************************************************************************)
(* C16. As claimed: with a settings row that is not JSON, settings(),      *)
(* scan_locations(), skip_regexes() and plugin_locations() return empty.   *)
(***************************************************************************)
ReadsSettings == last.call.op \in {"settings"} \cup SettingsKeys

EmptyAnswer ==
    last.result = IF last.call.op = "settings" THEN <<NoSettings>> ELSE <<>>

C16_MalformedGivesEmpty ==
    (ReadsSettings /\ db.settings.kind = "malformed") => (Returned /\ EmptyAnswer)

(***************************************************************************)
(* C16, amended. settings() gives an empty dict when no settings row is    *)
(* stored, and so the three list readers give an empty list; with a row    *)
(* that is not JSON all four raise, and they raise in no other case.       *)
(***************************************************************************)
C16_MalformedRaises ==
    ReadsSettings =>
        /\ last.outcome = "raised" <=> db.settings.kind = "malformed"
        /\ db.settings.kind = "none" => EmptyAnswer

\* skip_regexes() on a project file whose settings row is not JSON
C16_Witness ==
    /\ last.call.op = "skip_regex"
    /\ db.settings.kind = "malformed"
    /\ last.outcome = "raised"

\* the operations that run statements on tables: on a project file without
\* tables every statement of theirs fails
StorageOps ==
    {"add", "remove", "tag", "untag", "tags", "find", "settings", "save_settings", "scan"}

\* the places of a trace where an event of a kind stands
Places(trace, ev) == {i \in DOMAIN trace : trace[i].ev = ev}

\* what a call gives when all its statements failed: nothing, an empty list,
\* an empty dict; for a scan every identifier yielded, each after a failed add
NoOpAnswer(rec) ==
    IF rec.call.op = "settings" THEN rec.result = <<NoSettings>>
    ELSE IF rec.call.op = "scan"
    THEN /\ Cardinality(Places(rec.trace, "add")) = Len(rec.result)
         /\ Cardinality(Places(rec.trace, "scanned")) = Len(rec.result)
         /\ Places(rec.trace, "scan_complete") # {}
    ELSE rec.result = <<>>

(***************************************************************************)
(* C17. A failing storage statement is caught in every operation: on a     *)
(* project file without tables add, remove, tag, untag, tags, find,        *)
(* settings, save_settings and a scan in which no plugin raises return,    *)
(* leave the file as it was and give an empty result, the scan after       *)
(* having gone through every identifier its plugins yield; on a created    *)
(* file a save_settings whose statement fails returns and stores nothing.  *)
(***************************************************************************)
C17_StorageFailureCaught ==
    [][/\ (~db.created /\ last'.call.op \in StorageOps
             /\ Places(last'.trace, "raise") = {}) =>
                (last'.outcome = "returned" /\ db' = db /\ NoOpAnswer(last'))
       /\ (last'.call.op = "save_settings" /\ HasQuote(Dumps(last'.call.arg))) =>
                (last'.outcome = "returned" /\ db' = db)]_vars

\* a scan of a project file without tables that went through two identifiers
\* or more and returned them
C17_Witness ==
    /\ IsScan /\ Returned
    /\ ~db.created
    /\ Len(last.result) >= 2
    /\ Cardinality(EventsOf("add")) = Len(last.result)

\* the exceptions a scan plugin raised in identifiers(): they stand before
\* the commit of the discovery
EnumerationRaise ==
    {i \in EventsOf("raise") :
        /\ last.trace[i].tag \in Range(ScanPlugins)
        /\ \A j \in EventsOf("commit") : i < j}

\* the (location, plugin) pairs of a pass, in the order scan() visits them
RECURSIVE SourcePairs(_)
SourcePairs(locations) ==
    IF locations = <<>> THEN <<>>
    ELSE [i \in DOMAIN ScanPlugins |-> <<Head(locations), ScanPlugins[i]>>]
         \o SourcePairs(Tail(locations))

\* the pairs of the pass just recorded
PassPairs == SourcePairs(ResolveLocations(db, last.call.arg))

\* what the source at place i of the pass yields
YieldOf(i) ==
    Identifiers(PassPairs[i][2], PassPairs[i][1], SkipSet(db), last.call.recursive, disk)

Represents(i) == CanRepresent(PassPairs[i][2], PassPairs[i][1], disk)

\* the first source of the pass whose identifiers() raises
Failing(i) ==
    /\ Represents(i) /\ YieldOf(i).raises
    /\ \A j \in 1..(i - 1) : ~(Represents(j) /\ YieldOf(j).raises)

\* the identifiers yielded by the sources at places from..to, in order
RECURSIVE YieldedBy(_, _)
YieldedBy(from, to) ==
    IF from > to THEN <<>>
    ELSE (IF Represents(from) THEN YieldOf(from).items ELSE <<>>)
         \o YieldedBy(from + 1, to)

(***************************************************************************)
(* C19. As claimed: when a scan plugin raises while it enumerates a        *)
(* location, the scan returns, and the identifiers that the other sources  *)
(* yield are in the returned list.                                         *)
(***************************************************************************)
C19_FailingSourceSkipped ==
    (IsScan /\ EnumerationRaise # {}) =>
        \A i \in DOMAIN PassPairs :
            (Represents(i) /\ ~YieldOf(i).raises /\ YieldOf(i).items # <<>>) =>
                (Returned /\ Range(YieldOf(i).items) \subseteq Range(last.result))

(***************************************************************************)
(* C19, amended. When a scan plugin raises while it enumerates a location, *)
(* the exception leaves scan(): the identifiers yielded up to the raise    *)
(* were inserted and announced and their inserts are committed, no source  *)
(* or location after the failing one is visited, nothing else of the pass  *)
(* is run and scan_complete is not emitted.                                *)
(***************************************************************************)
C19_FailingSourceAborts ==
    (IsScan /\ EnumerationRaise # {}) =>
        /\ last.outcome = "raised"
        /\ EventsOf("scan_complete") = {}
        /\ EnumerationRaise = {Len(last.trace) - 1}
        /\ last.trace[Len(last.trace)] = Commit
        /\ \A i \in DOMAIN PassPairs : Failing(i) => last.result = YieldedBy(1, i)
        /\ \E i \in DOMAIN PassPairs : Failing(i)
        /\ db.created => Range(last.result) \subseteq Members(db)

\* the first source yields u1 and raises; the file scanner, next in line for the
\* same directory, would have yielded the file c:/r/a
C19_Witness ==
    /\ IsScan /\ EnumerationRaise # {}
    /\ db.created
    /\ last.result = <<"u1">>
    /\ "u1" \in Members(db)
    /\ "c:/r/a" \in disk

\* the places of the trace where a connected callable raised
FaultyRaise == {i \in EventsOf("raise") : last.trace[i].tag = "faulty"}

\* the callables of the signal whose emit stands at a place of the trace:
\* scan_complete is emitted without an identifier
SignalAt(i) ==
    IF last.trace[i].id = "" THEN signals.scan_complete ELSE signals.scanned

\* a listener was connected after a faulty callable
ListenerAfterFaulty(callables) ==
    \E m, n \in DOMAIN callables :
        m < n /\ callables[m] = "faulty" /\ callables[n] = "listener"

(***************************************************************************)
(* C20. As claimed: a callable connected to scanned or scan_complete that  *)
(* raises does not end the scan: the scan returns, scan_complete is        *)
(* emitted, and a callable connected after the raising one is still called *)
(* for the event.                                                          *)
(***************************************************************************)
C20_FaultySubscriberTolerated ==
    (IsScan /\ FaultyRaise # {}) =>
        /\ Returned
        /\ EventsOf("scan_complete") # {}
        /\ \A i \in FaultyRaise :
               ListenerAfterFaulty(SignalAt(i)) =>
                   \E j \in EventsOf("called") :
                       j > i /\ last.trace[j] = Event("called", last.trace[i].id, "listener")

(***************************************************************************)
(* C20, amended. A callable connected to scanned or scan_complete that     *)
(* raises ends the scan with its exception: no callable is called after    *)
(* it, nothing else is discovered or inserted and nothing is returned.     *)
(* Raised for scanned, the identifier just inserted is committed,          *)
(* scan_complete is not emitted; raised for scan_complete, the whole pass  *)
(* was done before.                                                        *)
(***************************************************************************)
C20_FaultySubscriberAborts ==
    (IsScan /\ FaultyRaise # {}) =>
        /\ last.outcome = "raised"
        /\ Cardinality(FaultyRaise) = 1
        /\ \A i \in FaultyRaise :
               /\ \A j \in (i + 1)..Len(last.trace) : last.trace[j] = Commit
               /\ last.trace[i].id # "" =>
                      /\ EventsOf("scan_complete") = {}
                      /\ i + 1 = Len(last.trace)
                      /\ Len(last.result) = Cardinality(EventsOf("scanned")) - 1
                      /\ db.created => last.trace[i].id \in Members(db)
               /\ last.trace[i].id = "" =>
                      /\ i = Len(last.trace)
                      /\ Cardinality(EventsOf("scan_complete")) = 1
                      /\ Len(last.result) = Cardinality(EventsOf("scanned"))

\* a faulty callable connected to scanned before a listener: the scan ended
\* at the first identifier and the listener was never called
C20_Witness ==
    /\ IsScan /\ FaultyRaise # {}
    /\ signals.scanned = <<"faulty", "listener">>
    /\ db.created
    /\ EventsOf("called") = {}
    /\ EventsOf("add") # {}

\* every tag of the call is linked to its identifier
AllLinked(d, call) ==
    \A i \in DOMAIN call.tags : LinkCount(d, call.id, Lower(call.tags[i])) > 0

C22_AbsentIdentifierNoOp ==
    [][(last'.call.op \in {"remove", "tag", "untag"} /\ last'.call.id \notin Members(db))
         => /\ last'.outcome = "returned"
            /\ db'.elements = db.elements
            /\ db'.links = db.links]_vars

\* a tag() on an identifier that was never added, in a catalog that has
\* identifiers with tags
C22_Witness ==
    /\ last.call.op = "tag" /\ Returned
    /\ db.created
    /\ last.call.id \notin Members(db)
    /\ \E id \in Members(db) : TagSet(db, id) # {}

\* the settings key an add_X or remove_X call works on
KeyOf(op) ==
    IF op \in {"add_scan_location", "remove_scan_location"} THEN "scan_locations"
    ELSE "skip_regex"

\* the list X() gives on a project file
Stored(d, op) == ListOf(Settings(d), KeyOf(op)).val

(***************************************************************************)
(* C29. remove_X(v) of an entry that was added returns and leaves a list   *)
(* without v that still holds the other entries; an add_X(w) after it      *)
(* returns and X() then holds w.                                           *)
(***************************************************************************)
C29_RemoveThenAdd ==
    [][/\ (/\ last'.call.op \in {"remove_scan_location", "remove_skip_regex"}
           /\ db.created
           /\ last'.call.id \in Range(Stored(db, last'.call.op)))
          => /\ last'.outcome = "returned"
             /\ Stored(db', last'.call.op) # None
             /\ last'.call.id \notin Range(Stored(db', last'.call.op))
             /\ Range(Stored(db, last'.call.op)) \ {last'.call.id}
                    \subseteq Range(Stored(db', last'.call.op))
       /\ (/\ last.call.op \in {"remove_scan_location", "remove_skip_regex"}
           /\ last.outcome = "returned"
           /\ last'.call.op \in {"add_scan_location", "add_skip_regex"}
           /\ KeyOf(last'.call.op) = KeyOf(last.call.op))
          => /\ last'.outcome = "returned"
             /\ Conform(last'.call.id) \in Range(Stored(db', last'.call.op))]_vars

(***************************************************************************)
(* C30. After add_skip_regex(p) on a created project file, skip_regexes()  *)
(* holds p as it was given.                                                *)
(***************************************************************************)
C30_PatternKept ==
    [][(last'.call.op = "add_skip_regex" /\ db.created /\ last'.outcome = "returned")
         => last'.call.id \in Range(SkipRegexes(db').val)]_vars

\* the call was get(identifier); no plugin location was changed since
IsGet == last.call.op = "get"

\* the data types of the cached data plugins that can represent an identifier
Representing(identifier) ==
    {traits.data_plugins[i].data_type : i \in
        {j \in DOMAIN traits.data_plugins :
            TraitCanRepresent(traits.data_plugins[j].data_type, identifier)}}

(***************************************************************************)
(* C23. get(identifier) returns, and gives None exactly when no data       *)
(* plugin of the project can represent the identifier; otherwise the view  *)
(* binds every plugin that can represent it.                               *)
(***************************************************************************)
C23_NoneIffNoTrait ==
    IsGet => /\ Returned
             /\ last.result = <<>> <=> Representing(last.call.id) = {}
             /\ Range(last.result) = Representing(last.call.id)

\* a view for one identifier and None for another, with the same plugins
C23_Witness ==
    /\ IsGet /\ last.call.id = "u1" /\ last.result = <<>>
    /\ "c:" \in DOMAIN traits.got /\ traits.got["c:"] # <<>>

\* the place of a data type in a list of plugins
PlaceIn(plugins, data_type) ==
    CHOOSE i \in DOMAIN plugins : plugins[i].data_type = data_type

PriorityOf(data_type) ==
    Registered(traits.paths)[PlaceIn(Registered(traits.paths), data_type)].priority

\* a list of data types stands by priority, highest first, and by
\* registration among the data types of one priority
ByPriorityThenRegistration(types) ==
    \A i, j \in DOMAIN types :
        i < j => \/ PriorityOf(types[i]) > PriorityOf(types[j])
                 \/ /\ PriorityOf(types[i]) = PriorityOf(types[j])
                    /\ PlaceIn(Registered(traits.paths), types[i])
                         < PlaceIn(Registered(traits.paths), types[j])

(***************************************************************************)
(* C25. The cached data plugins are the registered ones, ordered by        *)
(* priority, highest first, plugins of one priority in the order of their  *)
(* registration; so are the plugins bound into a view. This holds after    *)
(* construction and after every change of the plugin locations.            *)
(***************************************************************************)
C25_PriorityOrderStable ==
    /\ Len(traits.data_plugins) = Len(Registered(traits.paths))
    /\ Range(traits.data_plugins) = Range(Registered(traits.paths))
    /\ ByPriorityThenRegistration(
           [i \in DOMAIN traits.data_plugins |-> traits.data_plugins[i].data_type])
    /\ IsGet => ByPriorityThenRegistration(last.result)

\* after two plugin locations were added: a view of four plugins, two of
\* each priority
C25_Witness ==
    /\ IsGet
    /\ traits.paths = <<"p:/y", "p:/x">>
    /\ last.result = <<"carnivore", "pet", "herbivore", "file", "image">>

RECURSIVE YieldedByOthers(_, _)
YieldedByOthers(from, to) ==
    IF from > to THEN <<>>
    ELSE (IF PassPairs[from][2] # "file_scanner" /\ Represents(from)
          THEN YieldOf(from).items ELSE <<>>)
         \o YieldedByOthers(from + 1, to)

C32_CheckTotal ==
    IsScan =>
        \A i \in EventsOf("check") :
            last.trace[i].tag = "file_scanner" =>
                /\ ~FsCheck(last.trace[i].id, disk).raised
                /\ FsCheck(last.trace[i].id, disk).val \in {IS_VALID, NOT_VALID, UNKNOWN}

\* every event of the first kind stands before every event of the second
Precede(first, second) ==
    \A i \in EventsOf(first), j \in EventsOf(second) : i < j

(***************************************************************************)
(* C33. The catalog writes of a full scan come in phases: every insert of  *)
(* an identifier stands before every insert of a tag, every distinct tag   *)
(* of the pass is inserted once and before any link of an identifier to a  *)
(* tag is written, and every link stands before every removal.             *)
(***************************************************************************)
C33_PhaseOrder ==
    FullScan =>
        /\ Precede("add", "tag_insert")
        /\ Precede("add", "tag_connect")
        /\ Precede("add", "remove")
        /\ Precede("tag_insert", "tag_connect")
        /\ Precede("tag_insert", "remove")
        /\ Precede("tag_connect", "remove")
        /\ \A i, j \in EventsOf("tag_insert") :
               last.trace[i].tag = last.trace[j].tag => i = j
        /\ \A k \in EventsOf("tag_connect") :
               \E j \in EventsOf("tag_insert") : last.trace[j].tag = last.trace[k].tag

\* a full scan with writes of all four kinds: c:/r/a was yielded twice, so its
\* tags were collected twice, and each of them was inserted once
C33_Witness ==
    /\ FullScan /\ Returned
    /\ Count(last.result, "c:/r/a") >= 2
    /\ EventsOf("remove") # {}
    /\ EventsOf("tag_connect") # {}
    /\ Cardinality(EventsOf("tag_insert")) = 2

\* the identifiers of the scanned events of a trace, in the order of the trace
RECURSIVE Announced(_)
Announced(trace) ==
    IF trace = <<>> THEN <<>>
    ELSE (IF Head(trace).ev = "scanned" THEN <<Head(trace).id>> ELSE <<>>)
         \o Announced(Tail(trace))

(***************************************************************************)
(* C34. The identifiers that the scanned signal delivers in a scan are, in *)
(* this order, what the sources yield: the roots in the order given, for   *)
(* each root the sources that can represent it in registry order, for each *)
(* source the order of its yield. The list that scan() returns is the same *)
(* sequence, element for element.                                          *)
(***************************************************************************)
C34_DiscoveryOrder ==
    (IsScan /\ Returned) =>
        /\ Announced(last.trace) = YieldedBy(1, Len(PassPairs))
        /\ Announced(last.trace) = last.result

\* the stored locations name c:/r twice: the api source's three identifiers,
\* then the file scanner's one, and both again for the second root
C34_Witness ==
    /\ IsScan /\ Returned
    /\ Len(PassPairs) = 4
    /\ last.result = <<"u1", "c:/r/a", "u1", "c:/r/a", "u1", "c:/r/a", "u1", "c:/r/a">>

\* the places of a trace where a connected callable was handed an identifier
HeardIn(trace) == {i \in DOMAIN trace : trace[i].ev = "called" /\ trace[i].id # ""}

\* the places of a trace where a connection context committed
CommitsIn(trace) == {j \in DOMAIN trace : trace[j].ev = "commit"}

\* what a connection of its own reads at place i of the trace of a scan that
\* led from catalog before to catalog after: before the first commit of the
\* pass it is the catalog as it was when the scan began
CommittedAt(trace, i, before, after) ==
    IF \E j \in CommitsIn(trace) : j < i THEN after ELSE before

(***************************************************************************)
(* C35. As claimed: when a callable connected to scanned is handed an      *)
(* identifier, the insert of the identifier is committed: a find(None) on  *)
(* a connection of its own returns the identifier, and a commit of the     *)
(* scan stands between the insert and the call.                            *)
(***************************************************************************)
C35_CommittedWhenAnnounced ==
    [][(last'.call.op = "scan" /\ db.created) =>
         \A i \in HeardIn(last'.trace) :
             /\ \E j \in CommitsIn(last'.trace) : j < i
             /\ last'.trace[i].id \in Range(FindAll(CommittedAt(last'.trace, i, db, db')))]_vars

(***************************************************************************)
(* C35, amended. When a callable connected to scanned is handed an         *)
(* identifier, the insert of the identifier has been executed and is not   *)
(* committed: the connection of the discovery is open, and its one commit  *)
(* comes after the last source of the last root. A find(None) on a         *)
(* connection of its own returns the identifier only if the catalog held   *)
(* it when the scan began.                                                 *)
(***************************************************************************)
C35_AnnouncedBeforeCommit ==
    [][(last'.call.op = "scan" /\ db.created) =>
         \A i \in HeardIn(last'.trace) :
             /\ \A j \in CommitsIn(last'.trace) : i < j
             /\ last'.trace[i - 1].ev \in {"scanned", "called"}
             /\ last'.trace[i].id \in Range(FindAll(CommittedAt(last'.trace, i, db, db')))
                  <=> last'.trace[i].id \in Members(db)]_vars

\* a listener was handed u1 before the first commit of a scan that returned
\* and left u1 in the catalog
C35_Witness ==
    /\ IsScan /\ Returned /\ db.created
    /\ "u1" \in Members(db)
    /\ \E i \in HeardIn(last.trace) :
           /\ last.trace[i] = Event("called", "u1", "listener")
           /\ CommitsIn(last.trace) # {}
           /\ \A j \in CommitsIn(last.trace) : i < j

\* the identifiers a trace announces
AnnouncedIn(trace) == {trace[i].id : i \in {j \in DOMAIN trace : trace[j].ev = "scanned"}}

(***************************************************************************)
(* C36. A scan removes no link of an identifier to a tag, except with the  *)
(* identifier: every identifier that is in the catalog before a scan and   *)
(* after it has after it every tag it had before, and an identifier that   *)
(* the pass did not discover has the same tags as before.                  *)
(***************************************************************************)
C36_TagsSurviveScan ==
    [][last'.call.op = "scan" =>
         \A id \in Members(db) \cap Members(db') :
             /\ TagSet(db, id) \subseteq TagSet(db', id)
             /\ id \notin AnnouncedIn(last'.trace) => TagSet(db', id) = TagSet(db, id)]_vars

\* a full scan that discovered u1 and linked mandatory tags: u1 has the tag
\* that tag() gave it, c:/r/a has that tag and its mandatory tags
C36_Witness ==
    /\ FullScan /\ Returned
    /\ ScannedFor("u1") # {}
    /\ EventsOf("tag_connect") # {}
    /\ TagSet(db, "u1") = {"meat"}
    /\ TagSet(db, "c:/r/a") = {"meat", "Hunter"}

(***************************************************************************)
(* C37. A file that the file scanner yields and that is no longer on disk  *)
(* is judged NOT_VALID by the file scanner's check, whatever the form of   *)
(* its path, so that it is not in the catalog after a full scan that       *)
(* returns.                                                                *)
(***************************************************************************)
C37_MissingFilePruned ==
    (FullScan /\ Returned /\ db.created) =>
        /\ \A i \in EventsOf("check") :
               (/\ last.trace[i].tag = "file_scanner"
                /\ last.trace[i].id \in (Files \cup RootFiles) \ disk)
                   => FsCheck(last.trace[i].id, disk) = Ret(NOT_VALID)
        /\ \A id \in (Files \cup RootFiles) \ disk : id \notin Members(db)

====
